---- MODULE Spec2Model ----
(***************************************************************************)
(* Model of the chat gateway: the route handler POST with checkRateLimit   *)
(* and getIP, the failover dispatcher fetchWithRotatedKey with shuffle,    *)
(* and the credential pool keys.  The usage store is the Redis instance    *)
(* the handler talks to: GET, SET with EX, INCR, and key expiry.           *)
(*                                                                         *)
(* JavaScript strings that the code takes apart (the x-forwarded-for       *)
(* header, the input of the page, a messages field that is a string) are   *)
(* sequences of UTF-16 code units, each a number in 0 .. 65535.  null /    *)
(* undefined are the sentinels Nil (numbers) and UNSET (environment        *)
(* entries).                                                               *)
(***************************************************************************)
EXTENDS Integers, Sequences, FiniteSets, TLC

\* ---------------------------------------------------------------- bounds
NumSlots == 2          \* requests that can be in flight at the same time
MaxReqs == 3           \* requests started in one behaviour of Spec
TicksPerWindow == 2    \* clock granularity: ticks in one quota window
MaxMsgs == 7           \* longest message list of a request body

\* ------------------------------------------------------ program constants
IP_LIMIT == 100
WINDOW == 3600 * 24 * 2
HistoryTurns == 5

Nil == -1              \* the null that redis.get answers for a missing key
NoExpiry == -1         \* TTL of a key that has no expiry
UNSET == "<undefined>" \* an environment variable that is not set

Slots == 1 .. NumSlots
TickLen == WINDOW \div TicksPerWindow

\* ------------------------------------------------------------ JS helpers
Min(a, b) == IF a < b THEN a ELSE b

RECURSIVE SelectSeqTruthy(_)
\* [ ... ].filter(Boolean) on the environment entries: undefined and the
\* empty string are falsy, every other string is kept, order preserved
SelectSeqTruthy(s) ==
    IF s = <<>> THEN <<>>
    ELSE IF Head(s) = UNSET \/ Head(s) = ""
         THEN SelectSeqTruthy(Tail(s))
         ELSE <<Head(s)>> \o SelectSeqTruthy(Tail(s))

KeysOf_KeepEmpty(env) == SelectSeq(env, LAMBDA x : x # UNSET)

\* keys = [AI_API_KEY_1 .. AI_API_KEY_6].filter(Boolean)
KeysOf(env) == SelectSeqTruthy(env)

\* the environments the process is started with
EnvConfigs ==
    { <<"K1", UNSET, "K2", "", UNSET, UNSET>>,
      <<UNSET, "", UNSET, UNSET, UNSET, UNSET>> }

\* the environments of the dispatcher's specification: three keys, the same
\* key in two entries, two keys, no key
EnvConfigsFailover ==
    EnvConfigs \cup
    { <<"K1", "K2", "K3", UNSET, UNSET, UNSET>>,
      <<"K1", UNSET, "", "K1", UNSET, UNSET>> }

\* ---- getIP ---------------------------------------------------------------
RECURSIVE UpToComma(_)
\* s.split(",")[0]: the units before the first comma (unit 44)
UpToComma(s) ==
    IF s = <<>> \/ Head(s) = 44 THEN <<>>
    ELSE <<Head(s)>> \o UpToComma(Tail(s))

\* the code units String.prototype.trim removes.  WhiteSpace of ECMAScript:
\* U+0009 tab, U+000B vertical tab, U+000C form feed, U+FEFF and the space
\* separators U+0020, U+00A0, U+1680, U+2000 to U+200A, U+202F, U+205F,
\* U+3000; LineTerminator: U+000A, U+000D, U+2028, U+2029
WhiteSpace ==
    {9, 10, 11, 12, 13, 32, 160, 5760, 8232, 8233, 8239, 8287, 12288, 65279}
        \cup (8192 .. 8202)

RECURSIVE TrimLeft(_)
TrimLeft(s) ==
    IF s # <<>> /\ Head(s) \in WhiteSpace THEN TrimLeft(Tail(s)) ELSE s

RECURSIVE TrimRight(_)
TrimRight(s) ==
    IF s # <<>> /\ s[Len(s)] \in WhiteSpace
    THEN TrimRight(SubSeq(s, 1, Len(s) - 1))
    ELSE s

\* s.trim()
Trim(s) == TrimRight(TrimLeft(s))

\* req.headers.get("x-forwarded-for") || ""
HeaderOrEmpty(h) == IF h.has THEN h.val ELSE <<>>

getIP(h) == Trim(UpToComma(HeaderOrEmpty(h)))

UsageKey_Shared(ip) == <<"AIDemoUsage:">>

\* `AIDemoUsage:${IP}`
UsageKey(ip) == <<"AIDemoUsage:">> \o ip

\* ---- the usage store (Redis) ---------------------------------------------
\* the store is a function from the keys that exist to [count, ttl]
RedisGet(s, k) == IF k \in DOMAIN s THEN s[k].count ELSE Nil

RedisSetEx(s, k, v, ex) ==
    [x \in DOMAIN s \cup {k} |->
        IF x = k THEN [count |-> v, ttl |-> ex] ELSE s[x]]

RedisIncr_Expire(s, k) ==
    [x \in DOMAIN s \cup {k} |->
        IF x = k
        THEN [count |-> (IF k \in DOMAIN s THEN s[k].count ELSE 0) + 1,
              ttl |-> 3600 * 24 * 2]
        ELSE s[x]]

\* INCR adds one to the value and leaves the TTL alone; on a missing key it
\* creates the key with value 1 and no expiry
RedisIncr(s, k) ==
    [x \in DOMAIN s \cup {k} |->
        IF x = k
        THEN IF k \in DOMAIN s
             THEN [count |-> s[k].count + 1, ttl |-> s[k].ttl]
             ELSE [count |-> 1, ttl |-> NoExpiry]
        ELSE s[x]]

\* the keys whose TTL runs out when d seconds pass
Expiring(s, d) == {k \in DOMAIN s : s[k].ttl # NoExpiry /\ s[k].ttl <= d}

\* the store after d seconds
RedisAge(s, d) ==
    [k \in DOMAIN s \ Expiring(s, d) |->
        IF s[k].ttl = NoExpiry THEN s[k]
        ELSE [count |-> s[k].count, ttl |-> s[k].ttl - d]]

\* ---- checkRateLimit ------------------------------------------------------
LimitReason == "AI usage limit reached. Get full access when we launch."

checkRateLimit_Strict(used) ==
    IF used # Nil /\ used > IP_LIMIT
    THEN [allowed |-> FALSE, reason |-> LimitReason, status |-> 429, new |-> FALSE]
    ELSE IF used = Nil \/ used = 0
    THEN [allowed |-> TRUE, reason |-> "", status |-> 200, new |-> TRUE]
    ELSE [allowed |-> TRUE, reason |-> "", status |-> 200, new |-> FALSE]

\* null >= 100 is false; !used is true for null and for 0
checkRateLimit(used) ==
    IF used # Nil /\ used >= IP_LIMIT
    THEN [allowed |-> FALSE, reason |-> LimitReason, status |-> 429, new |-> FALSE]
    ELSE IF used = Nil \/ used = 0
    THEN [allowed |-> TRUE, reason |-> "", status |-> 200, new |-> TRUE]
    ELSE [allowed |-> TRUE, reason |-> "", status |-> 200, new |-> FALSE]

\* ---- shuffle -------------------------------------------------------------
Swap(a, i, j) ==
    [x \in 1 .. Len(a) |-> IF x = i THEN a[j] ELSE IF x = j THEN a[i] ELSE a[x]]

RECURSIVE ShuffleFrom(_, _, _)
\* the loop body for the 0-based index i, with rnd[i] the value of
\* Math.floor(Math.random() * (i + 1))
ShuffleFrom(a, i, rnd) ==
    IF i <= 0 THEN a
    ELSE ShuffleFrom(Swap(a, i + 1, rnd[i] + 1), i - 1, rnd)

shuffle_InOrder(array, rnd) == array

shuffle(array, rnd) == ShuffleFrom(array, Len(array) - 1, rnd)

PoolAfterShuffle_InPlace(pool, rnd) == shuffle(pool, rnd)

\* shuffle([...keys]): shuffle swaps the entries of the array it is given,
\* which is the copy, so the exported array keeps its entries
PoolAfterShuffle(pool, rnd) == pool

\* the draws Math.random can produce for an array of n elements
Draws(n) == {f \in [1 .. n - 1 -> 0 .. n - 1] : \A i \in 1 .. n - 1 : f[i] <= i}

\* ---- request bodies ------------------------------------------------------
systemPrompt == [role |-> "system", content |-> "You are a friendly, engaging AI assistant named Nova"]

UserMsg(n) == [role |-> "user", content |-> n]

\* the message lists of the bodies: the first n of a fixed conversation
MsgList(n) == [i \in 1 .. n |-> UserMsg(i)]

\* a body is text that does not parse (json), the JSON value null (isNull),
\* or a value whose messages field is missing or falsy (hasMessages), is
\* truthy without a slice method (a number, an object: sliceable), or is a
\* list (messages) or a string (isText, text)
JsonBody(isNull, hasMessages, sliceable, m) ==
    [json |-> TRUE, isNull |-> isNull, hasMessages |-> hasMessages,
     sliceable |-> sliceable, messages |-> m, isText |-> FALSE, text |-> <<>>]

BadJson == [JsonBody(FALSE, FALSE, FALSE, <<>>) EXCEPT !.json = FALSE]
NullBody == JsonBody(TRUE, FALSE, FALSE, <<>>)
NoMessages == JsonBody(FALSE, FALSE, FALSE, <<>>)
MessagesNotList == JsonBody(FALSE, TRUE, FALSE, <<>>)
WithMessages(m) == JsonBody(FALSE, TRUE, TRUE, m)

\* a body whose messages field is the string s: the empty string is falsy,
\* every other string is truthy and has a slice method
WithText(s) ==
    IF s = <<>> THEN NoMessages
    ELSE [WithMessages(<<>>) EXCEPT !.isText = TRUE, !.text = s]

Bodies ==
    {BadJson, NullBody, NoMessages, MessagesNotList,
     WithMessages(MsgList(0)), WithMessages(MsgList(1))}

BodiesOfSpec == {BadJson, NoMessages, WithMessages(MsgList(1))}

\* bodies with conversations of every length up to MaxMsgs, and with a text
\* in the place of the list: "hi", "hello!", "ab" followed by U+1F600 twice,
\* and U+1F600 three times (U+1F600 is the surrogate pair 55357, 56832)
BodiesLong ==
    {WithMessages(MsgList(n)) : n \in 0 .. MaxMsgs}
        \cup {WithText(<<104, 105>>),
              WithText(<<104, 101, 108, 108, 111, 33>>),
              WithText(<<97, 98, 55357, 56832, 55357, 56832>>),
              WithText(<<55357, 56832, 55357, 56832, 55357, 56832>>)}

NoHeader == [has |-> FALSE, val |-> <<>>]
Header(v) == [has |-> TRUE, val |-> v]

\* no header, the header " 1<tab>,2", and the header of U+00E9 and "2"
\* between two no-break spaces (a Latin-1 letter is no white space)
Headers ==
    {NoHeader, Header(<<32, 49, 9, 44, 50>>), Header(<<160, 233, 50, 160>>)}

\* requests that all come from the client "1"
HeadersOfOne == {h \in Headers : getIP(h) = <<49>>}

SliceLast_First(m, n) == SubSeq(m, 1, Min(n, Len(m)))

\* payload.messages.slice(-n)
SliceLast(m, n) == SubSeq(m, Len(m) - Min(n, Len(m)) + 1, Len(m))

HighSurrogates == 55296 .. 56319
LowSurrogates == 56320 .. 57343

RECURSIVE Spread(_)
\* [...s] for a string s: the iterator of a string gives its code points,
\* each a string of one unit, or of two when a high surrogate is followed by
\* a low one
Spread(s) ==
    IF s = <<>> THEN <<>>
    ELSE IF Len(s) >= 2 /\ s[1] \in HighSurrogates /\ s[2] \in LowSurrogates
         THEN <<SubSeq(s, 1, 2)>> \o Spread(SubSeq(s, 3, Len(s)))
         ELSE <<SubSeq(s, 1, 1)>> \o Spread(Tail(s))

\* [systemPrompt, ...payload.messages.slice(-5)] for the payload b: slice
\* takes the last elements of a list, and the last code units of a string,
\* which the spread then turns into strings of one code point each
ChatHistory(b) ==
    <<systemPrompt>> \o
        (IF b.isText THEN Spread(SliceLast(b.text, HistoryTurns))
         ELSE SliceLast(b.messages, HistoryTurns))

\* ---- upstream replies ----------------------------------------------------
\* response.data of a 2xx answer: the list of choices, each with a message
DataWith(c) == [isNull |-> FALSE, choices |-> <<[message |-> [content |-> c]]>>]
DataNoChoices == [isNull |-> FALSE, choices |-> <<>>]

\* a 2xx answer whose body is the JSON value null
DataNull == [isNull |-> TRUE, choices |-> <<>>]

UpstreamData == {DataWith("Hello"), DataWith(""), DataNoChoices, DataNull}

\* more answers for the dispatcher's specification: another content, and an
\* answer with two choices
UpstreamDataFailover ==
    UpstreamData \cup
    { DataWith("Hi"),
      [isNull |-> FALSE,
       choices |-> <<[message |-> [content |-> "Hello"]],
                     [message |-> [content |-> "Other"]]>>] }

\* what the evaluation of data.choices throws when data is null
Thrown == "<TypeError>"

\* data.choices?.[0]?.message?.content, "" standing for undefined as well:
\* the optional chaining starts after data.choices, which throws for null
ReplyOf(data) ==
    IF data.isNull THEN Thrown
    ELSE IF Len(data.choices) = 0 THEN ""
    ELSE data.choices[1].message.content

\* ---- responses -----------------------------------------------------------
NoResp == [status |-> 0, role |-> "none", content |-> ""]
Uncaught == [status |-> -1, role |-> "uncaught", content |-> ""]

\* NextResponse.json(body, {status}); without options the status is 200
Json(role, content, status) == [status |-> status, role |-> role, content |-> content]

RateLimited(limit) == Json("error", limit.reason, limit.status)
BadRequest == Json("error", "No messages provided", 400)
NoReply == Json("error", "No response received", 200)
Assistant(reply) == Json("assistant", reply, 200)
InternalError_200 == Json("error", "Some internal error occurred. Please try again later.", 200)
InternalError == Json("error", "Some internal error occurred. Please try again later.", 500)

\* ---- errors and log lines ------------------------------------------------
\* an Error object: its message, and the causes it carries (an Error built
\* with a message only carries none)
NoErr == [message |-> "", causes |-> <<>>]
JsError(message) == [message |-> message, causes |-> <<>>]

\* err of the catch in the loop (the rejection of axios.post) and the
\* rejection of a store command
AxiosError == JsError("Request failed")
StoreError == JsError("Store failed")

\* the TypeError of data.choices for a null data
TypeError == JsError("Cannot read properties of null (reading 'choices')")

\* throw new Error("All keys failed. Please try again later.")
AllKeysFailed == JsError("All keys failed. Please try again later.")

\* console.warn(`Key failed: ${key}, retrying...`, err.message): the line as
\* the list of its parts
WarnLine(key, err) == <<"Key failed: ", key, ", retrying...", err.message>>

\* ---- the handler, stage by stage -----------------------------------------
\* a request slot: the handler's locals plus what the request has done so far
\* (read: redis.get has answered, calls: upstream calls issued, okCalls:
\* calls that resolved, writes: commands it has run on the usage store,
\* warned: the lines console.warn has written while handling it,
\* err: the error the catch of POST has caught, cancelled: the client has
\* disconnected)
IdleReq ==
    [pc |-> "idle", hdr |-> NoHeader, body |-> BadJson, read |-> FALSE,
     new |-> FALSE,
     chatHistory |-> <<>>, shuffledKeys |-> <<>>, i |-> 0, reply |-> "",
     resp |-> NoResp, calls |-> 0, okCalls |-> 0, writes |-> 0,
     warned |-> <<>>, err |-> NoErr, cancelled |-> FALSE]

\* POST is entered: redis.get is awaited
Received(h, b) == [IdleReq EXCEPT !.pc = "check", !.hdr = h, !.body = b]

\* the slot a new request takes: the first one that handles no request
FreeSlot(rq) == CHOOSE r \in Slots :
    /\ rq[r].pc \in {"idle", "done"}
    /\ \A o \in Slots : o < r => rq[o].pc \notin {"idle", "done"}

KeyOf(q) == UsageKey(getIP(q.hdr))

\* the handler returns resp: its locals are gone, what it did is kept
Respond(q, resp) ==
    [q EXCEPT !.pc = "done", !.resp = resp, !.chatHistory = <<>>,
              !.shuffledKeys = <<>>, !.i = 0, !.reply = ""]

\* POST after checkRateLimit has returned limit
AfterCheck(q, limit) ==
    IF ~limit.allowed
    THEN Respond(q, RateLimited(limit))
    ELSE [q EXCEPT !.pc = "parse", !.new = limit.new]

\* the first iteration of the loop of fetchWithRotatedKey, or its throw
\* when there is no key to iterate over
Dispatch_NoThrow(q, ks) ==
    IF ks = <<>>
    THEN Respond(q, NoReply)
    ELSE [q EXCEPT !.pc = "call", !.shuffledKeys = ks, !.i = 1, !.calls = 1]

Dispatch_AllAtOnce(q, ks) ==
    IF ks = <<>>
    THEN Respond([q EXCEPT !.shuffledKeys = ks, !.err = AllKeysFailed], InternalError)
    ELSE [q EXCEPT !.pc = "call", !.shuffledKeys = ks, !.i = 1, !.calls = Len(ks)]

Dispatch(q, ks) ==
    IF ks = <<>>
    THEN Respond([q EXCEPT !.shuffledKeys = ks, !.err = AllKeysFailed], InternalError)
    ELSE [q EXCEPT !.pc = "call", !.shuffledKeys = ks, !.i = 1, !.calls = 1]

\* POST after request.json() has settled, up to the first axios.post
\* (request.json() rejects for a text that is no JSON; payload.messages
\* throws for the payload null, and .slice is no function of a truthy
\* messages that is neither a list nor a string: all three outside the try)
AfterParse(q, ks, rnd) ==
    IF ~q.body.json \/ q.body.isNull THEN Respond(q, Uncaught)
    ELSE IF ~q.body.hasMessages THEN Respond(q, BadRequest)
    ELSE IF ~q.body.sliceable THEN Respond(q, Uncaught)
    ELSE Dispatch([q EXCEPT !.chatHistory = ChatHistory(q.body)],
                  shuffle(ks, rnd))

OnRejected_Retry(q) ==
    IF q.calls < Len(q.shuffledKeys)
    THEN [q EXCEPT !.calls = q.calls + 1,
                   !.warned = Append(q.warned, WarnLine(q.shuffledKeys[q.i], AxiosError))]
    ELSE Respond([q EXCEPT !.err = AllKeysFailed], InternalError)

OnRejected_GiveUp(q) == Respond([q EXCEPT !.err = AllKeysFailed], InternalError)

\* the catch of the loop writes its line, for the last key too; then the
\* loop continues with the next key, or ends and the dispatcher throws
OnRejected(q) ==
    LET lines == Append(q.warned, WarnLine(q.shuffledKeys[q.i], AxiosError))
    IN  IF q.i < Len(q.shuffledKeys)
        THEN [q EXCEPT !.i = q.i + 1, !.calls = q.calls + 1, !.warned = lines]
        ELSE Respond([q EXCEPT !.err = AllKeysFailed, !.warned = lines],
                     InternalError)

Returned_LastChoice(q, data) ==
    [q EXCEPT !.okCalls = q.okCalls + 1,
              !.reply = IF data.isNull THEN Thrown
                        ELSE IF Len(data.choices) = 0 THEN ""
                        ELSE data.choices[Len(data.choices)].message.content,
              !.shuffledKeys = <<>>, !.i = 0]

\* fetchWithRotatedKey returns data to POST: the locals of the dispatcher
\* are gone
Returned(q, data) ==
    [q EXCEPT !.okCalls = q.okCalls + 1, !.reply = ReplyOf(data),
              !.shuffledKeys = <<>>, !.i = 0]

OnResolved_Continue(q, data) ==
    IF q.i < Len(q.shuffledKeys)
    THEN [q EXCEPT !.okCalls = q.okCalls + 1, !.reply = ReplyOf(data),
                   !.i = q.i + 1, !.calls = q.calls + 1]
    ELSE IF ReplyOf(data) = Thrown
    THEN Respond([Returned(q, data) EXCEPT !.err = TypeError], InternalError)
    ELSE IF ReplyOf(data) = "" THEN Respond(Returned(q, data), NoReply)
    ELSE [Returned(q, data) EXCEPT !.pc = "commit"]

OnResolved_AnswerFirst(q, data) ==
    IF ReplyOf(data) = Thrown
    THEN Respond([Returned(q, data) EXCEPT !.err = TypeError], InternalError)
    ELSE IF ReplyOf(data) = "" THEN Respond(Returned(q, data), NoReply)
    ELSE Respond(Returned(q, data), Assistant(ReplyOf(data)))

\* return response.data, then POST up to the await of redis.set / redis.incr
OnResolved(q, data) ==
    IF ReplyOf(data) = Thrown
    THEN Respond([Returned(q, data) EXCEPT !.err = TypeError], InternalError)
    ELSE IF ReplyOf(data) = "" THEN Respond(Returned(q, data), NoReply)
    ELSE [Returned(q, data) EXCEPT !.pc = "commit"]

CommitStore_PerCall(q, s) ==
    IF q.new THEN RedisSetEx(s, KeyOf(q), q.calls, WINDOW)
    ELSE IF q.calls = 1 THEN RedisIncr(s, KeyOf(q))
    ELSE RedisIncr(RedisIncr(s, KeyOf(q)), KeyOf(q))

CommitStore_Atomic(q, s) ==
    IF KeyOf(q) \in DOMAIN s THEN RedisIncr(s, KeyOf(q))
    ELSE RedisSetEx(s, KeyOf(q), 1, WINDOW)

CommitStore_AlwaysSet(q, s) == RedisSetEx(s, KeyOf(q), 1, WINDOW)

\* the command the request runs on the store once it has a reply
CommitStore(q, s) ==
    IF q.new THEN RedisSetEx(s, KeyOf(q), 1, WINDOW)
    ELSE RedisIncr(s, KeyOf(q))

\* POST after the store has run the command
AfterCommit(q) == Respond([q EXCEPT !.writes = q.writes + 1], Assistant(q.reply))

\* POST after the await of redis.set / redis.incr has rejected: the catch
\* answers 500 whether or not the store has run the command
AfterCommitFails(q, applied) ==
    Respond([q EXCEPT !.err = StoreError,
                      !.writes = IF applied THEN q.writes + 1 ELSE q.writes],
            InternalError)

\* ---- state ---------------------------------------------------------------
\* ---- the chat page (ChatbotDemo) -----------------------------------------
\* sends of the page in one behaviour
MaxSends == 2

\* replays of the mascot animation in one behaviour
MaxReplays == 2

\* input.trim() on a text given as its sequence of code units
trim(s) == Trim(s)

\* what the user can type: nothing, a space and an em space, "hi", and
\* U+00E9 between a tab and a line feed; the example prompt "List"
InputTexts == {<<>>, <<32, 8195>>, <<104, 105>>, <<9, 233, 10>>}
examplePrompts == {<<76, 105, 115, 116>>}

\* "Nova", "Great", "Sure"
GreetingContent == <<78, 111, 118, 97>>
demoResponses == {<<71, 114, 101, 97, 116>>, <<83, 117, 114, 101>>}

\* a content that is undefined (no code unit)
Undefined == <<Nil>>

greeting == [id |-> 1, content |-> GreetingContent, role |-> "assistant"]

\* the page after its first render and its mount effects: the greeting timer
\* is pending
ChatInit ==
    [messages |-> <<>>, messagesRef |-> <<>>, input |-> <<>>,
     isTyping |-> FALSE, demoMode |-> FALSE,
     greetingTimer |-> TRUE, demoTimers |-> 0, fetches |-> 0, sends |-> 0]

\* setMessages(prev => [...prev, m]) and messagesRef.current = [..., m]
appendMessage(p, m) ==
    [p EXCEPT !.messages = Append(@, m), !.messagesRef = Append(@, m)]

\* the callback of the 8 second timer of the greeting effect
onGreetingTimer(p) ==
    [p EXCEPT !.messages = <<greeting>>, !.messagesRef = <<greeting>>,
              !.greetingTimer = FALSE]

\* handleSend up to its first await (or its return)
handleSend(p) ==
    IF trim(p.input) = <<>> THEN p
    ELSE LET userMessage == [id |-> p.sends + 2, content |-> p.input,
                             role |-> "user"]
             q == [appendMessage(p, userMessage)
                     EXCEPT !.input = <<>>, !.isTyping = TRUE,
                            !.sends = @ + 1]
         IN  IF p.demoMode THEN [q EXCEPT !.demoTimers = @ + 1]
             ELSE [q EXCEPT !.fetches = @ + 1]

\* the callback of the canned-response timer
onDemoTimer(p, randomResponse) ==
    [appendMessage(p, [id |-> p.sends + 12, content |-> randomResponse,
                       role |-> "assistant"])
       EXCEPT !.isTyping = FALSE, !.demoTimers = @ - 1]

\* the rest of handleSend once fetch and response.json() have resolved with
\* data
onFetchResolved(p, data) ==
    [appendMessage(p, [id |-> p.sends + 12, content |-> data.content,
                       role |-> "assistant"])
       EXCEPT !.isTyping = FALSE, !.fetches = @ - 1]

\* the catch of handleSend: fetch or response.json() has rejected; the
\* variant leaves the flag as it is
onFetchRejected_KeepTyping(p) ==
    [p EXCEPT !.fetches = @ - 1]

onFetchRejected(p) ==
    [p EXCEPT !.isTyping = FALSE, !.fetches = @ - 1]

\* the bodies /api/chat answers with: a reply, and an error body, whose
\* content field is missing
PageData == {[content |-> <<72, 105>>], [content |-> Undefined]}

\* the textarea and the send button as rendered
inputDisabled(p) == p.isTyping
sendDisabled(p) == trim(p.input) = <<>> \/ p.isTyping

\* ---- the mascot (RcMascot) -----------------------------------------------
Timer(fn, reduced) == [fn |-> fn, reduced |-> reduced]

\* the component before it is mounted
MascotInit ==
    [isMounted |-> FALSE, animationState |-> "splash",
     showControls |-> FALSE, prefersReducedMotion |-> FALSE,
     animationStarted |-> FALSE, isInitialized |-> FALSE,
     timeouts |-> <<>>, initCleanup |-> FALSE,
     starts |-> 0, replays |-> 0, event |-> "none"]

\* cleanup: every pending timeout is cleared; the variant clears none
cleanup_Keep(m) == m

cleanup(m) == [m EXCEPT !.timeouts = <<>>]

safeTimeout(m, t) == [m EXCEPT !.timeouts = Append(@, t)]

\* startSequence as created by a render whose prefersReducedMotion was
\* reduced
startSequence(m, reduced) ==
    IF m.animationStarted THEN m
    ELSE LET s == [m EXCEPT !.animationStarted = TRUE,
                            !.starts = IF @ < 2 THEN @ + 1 ELSE @]
         IN  IF reduced
             THEN [s EXCEPT !.animationState = "docked",
                            !.showControls = TRUE]
             ELSE safeTimeout(
                    safeTimeout(
                      safeTimeout([s EXCEPT !.animationState = "splash"],
                                  Timer("transitioning", reduced)),
                      Timer("docked", reduced)),
                    Timer("idle", reduced))

\* the callback of timer t
runTimer(m, t) ==
    IF t.fn = "startSequence" THEN startSequence(m, t.reduced)
    ELSE IF ~m.animationStarted THEN m
    ELSE IF t.fn = "transitioning"
         THEN [m EXCEPT !.animationState = "transitioning"]
    ELSE IF t.fn = "docked"
         THEN [m EXCEPT !.animationState = "docked", !.showControls = TRUE]
    ELSE [m EXCEPT !.animationState = "idle"]

replayAnimation(m) ==
    safeTimeout([cleanup(m) EXCEPT !.animationStarted = FALSE,
                                   !.showControls = FALSE,
                                   !.animationState = "splash",
                                   !.starts = 0],
                Timer("startSequence", m.prefersReducedMotion))

\* the first effects of the component and of usePrefersReducedMotion, and
\* the render they cause: isMounted, and the preference as the media query
\* has it.  The commit of that render shows the Replay button; its effects
\* run later
mountEffects(m, matches) ==
    [m EXCEPT !.isMounted = TRUE, !.prefersReducedMotion = matches]

\* the effects of a commit are pending: isMounted is set and the init effect
\* has not run
effectsPending(m) == m.isMounted /\ ~m.isInitialized

\* the init effect: it schedules startSequence, as created by the render it
\* belongs to, and registers its cleanup
initEffect(m) ==
    IF ~m.isMounted \/ m.isInitialized THEN m
    ELSE safeTimeout([m EXCEPT !.isInitialized = TRUE, !.initCleanup = TRUE],
                     Timer("startSequence", m.prefersReducedMotion))

\* the cleanup function the init effect returned, run when the effect's
\* dependencies change
initEffectCleanup(m) ==
    IF m.initCleanup
    THEN [cleanup(m) EXCEPT !.animationStarted = FALSE,
                            !.initCleanup = FALSE]
    ELSE m

\* the reduced-motion effect
reducedMotionEffect(m) ==
    IF m.prefersReducedMotion /\ m.animationStarted
    THEN [cleanup(m) EXCEPT !.animationState = "docked",
                            !.showControls = TRUE]
    ELSE m

\* the media query changes to matches: effects that are pending are run
\* before the render of the new state.  That render gives startSequence a
\* new identity, so the init effect is run again (its cleanup first; its
\* body returns at once, isInitializedRef being set), and then the
\* reduced-motion effect
onPreferenceChange(m, matches) ==
    reducedMotionEffect(
        initEffectCleanup(
            [initEffect(m) EXCEPT !.prefersReducedMotion = matches]))

Rank(state) ==
    CASE state = "splash" -> 0
      [] state = "transitioning" -> 1
      [] state = "docked" -> 2
      [] state = "idle" -> 3

VARIABLES
    keys,      \* the credential pool
    store,     \* the usage store
    req,       \* the request slots
    served,    \* per key: 200 assistant replies given in the current window
    expired,   \* keys whose window has run out with no commit since
    started,   \* requests started so far
    page,      \* the chat page
    mascot     \* the mascot of the chat page

vars == <<keys, store, req, served, expired, started, page, mascot>>

NoStore == [k \in {} |-> [count |-> 0, ttl |-> NoExpiry]]

\* the store as the process finds it: empty, or the record of a client one
\* request below the limit (what IP_LIMIT - 1 requests served one after
\* another leave, see NearLimitIsNotReached)
InitStores ==
    {NoStore,
     RedisSetEx(NoStore, UsageKey(<<49>>), IP_LIMIT - 1, WINDOW)}

InitWith(st) ==
    /\ keys \in {KeysOf(env) : env \in EnvConfigs}
    /\ store = st
    /\ req = [r \in Slots |-> IdleReq]
    /\ served = [k \in DOMAIN st |-> st[k].count]
    /\ expired = {}
    /\ started = 0
    /\ page = ChatInit
    /\ mascot = MascotInit

Init == \E st \in InitStores : InitWith(st)

InitSeq == InitWith(NoStore)

\* ---- actions -------------------------------------------------------------
\* the handler of slot r has run to q: to its next await, or to its return.
\* A slot shows the response it has returned until the next response of any
\* slot, or until the next request takes it
Advance(r, q) ==
    req' = [o \in Slots |->
              IF o = r THEN q
              ELSE IF q.pc = "done" /\ req[o].pc = "done" THEN IdleReq
              ELSE req[o]]

\* a request with header h and body b arrives in slot r: POST runs into
\* checkRateLimit, up to the await of redis.get
Post(r, h, b) ==
    /\ req[r].pc \in {"idle", "done"}
    /\ r = FreeSlot(req)
    /\ Advance(r, Received(h, b))
    /\ UNCHANGED <<keys, store, served, expired, page, mascot>>

\* redis.get answers, checkRateLimit returns and POST runs up to the await
\* of request.json(), or to its 429
Check(r) ==
    /\ req[r].pc = "check"
    /\ Advance(r, AfterCheck([req[r] EXCEPT !.read = TRUE],
                             checkRateLimit(RedisGet(store, KeyOf(req[r])))))
    /\ UNCHANGED <<keys, store, served, expired, started, page, mascot>>

\* redis.get rejects: the await in checkRateLimit throws out of POST
CheckFails(r) ==
    /\ req[r].pc = "check"
    /\ Advance(r, Respond(req[r], Uncaught))
    /\ UNCHANGED <<keys, store, served, expired, started, page, mascot>>

\* request.json() settles; the handler runs up to the first upstream call
Parse(r) ==
    /\ req[r].pc = "parse"
    /\ \E rnd \in Draws(Len(keys)) :
          /\ Advance(r, AfterParse(req[r], keys, rnd))
          /\ keys' = PoolAfterShuffle(keys, rnd)
    /\ UNCHANGED <<store, served, expired, started, page, mascot>>

\* the upstream call in flight resolves with a 2xx answer
Resolve(r, data) ==
    /\ req[r].pc = "call"
    /\ Advance(r, OnResolved(req[r], data))
    /\ UNCHANGED <<keys, store, served, expired, started, page, mascot>>

\* the upstream call in flight rejects (network error, non-2xx status)
Reject(r) ==
    /\ req[r].pc = "call"
    /\ Advance(r, OnRejected(req[r]))
    /\ UNCHANGED <<keys, store, served, expired, started, page, mascot>>

\* the store runs redis.set / redis.incr and the handler answers 200
Commit(r) ==
    /\ req[r].pc = "commit"
    /\ store' = CommitStore(req[r], store)
    /\ Advance(r, AfterCommit(req[r]))
    /\ served' = [k \in DOMAIN store' |->
                    IF k = KeyOf(req[r])
                    THEN (IF k \in DOMAIN served THEN served[k] ELSE 0) + 1
                    ELSE served[k]]
    /\ expired' = expired \ {KeyOf(req[r])}
    /\ UNCHANGED <<keys, started, page, mascot>>

\* redis.set / redis.incr rejects and the catch of POST answers 500: the
\* store has not run the command, or it has run it and its answer was lost
\* on the way back (applied); the handler cannot tell the two apart
CommitFails(r) ==
    /\ req[r].pc = "commit"
    /\ \E applied \in BOOLEAN :
          /\ store' = IF applied THEN CommitStore(req[r], store) ELSE store
          /\ Advance(r, AfterCommitFails(req[r], applied))
          /\ served' = [k \in DOMAIN store' |->
                          IF k \in DOMAIN served THEN served[k] ELSE 0]
          /\ expired' = IF applied THEN expired \ {KeyOf(req[r])} ELSE expired
    /\ UNCHANGED <<keys, started, page, mascot>>

\* the client of the request in slot r disconnects while the upstream call
\* is in flight: nothing in POST or fetchWithRotatedKey listens to it
Cancel(r) ==
    /\ req[r].pc = "call"
    /\ ~req[r].cancelled
    /\ Advance(r, [req[r] EXCEPT !.cancelled = TRUE])
    /\ UNCHANGED <<keys, store, served, expired, started, page, mascot>>

\* TickLen seconds pass: the store ages its keys and drops the expired ones
Tick ==
    /\ \E k \in DOMAIN store : store[k].ttl # NoExpiry
    /\ store' = RedisAge(store, TickLen)
    /\ served' = [k \in DOMAIN store' |-> served[k]]
    /\ expired' = expired \cup Expiring(store, TickLen)
    /\ UNCHANGED <<keys, req, started, page, mascot>>

\* requests of one client that can be in flight together: their bodies are
\* the text that is no JSON, the object without messages and a list of one
\* message
Arrive(r) ==
    /\ started < MaxReqs
    /\ \E h \in HeadersOfOne, b \in BodiesOfSpec : Post(r, h, b)
    /\ started' = started + 1

\* a request with any of the bodies, in slot 1
ArriveOne ==
    /\ started < MaxReqs
    /\ \E h \in HeadersOfOne, b \in Bodies : Post(1, h, b)
    /\ started' = started + 1

Next ==
    \/ \E r \in Slots : Arrive(r)
    \/ \E r \in Slots : Check(r)
    \/ \E r \in Slots : CheckFails(r)
    \/ \E r \in Slots : Parse(r)
    \/ \E r \in Slots, data \in UpstreamData : Resolve(r, data)
    \/ \E r \in Slots : Reject(r)
    \/ \E r \in Slots : Commit(r)
    \/ \E r \in Slots : CommitFails(r)
    \/ Tick

Spec == Init /\ [][Next]_vars

\* one client whose requests are handled one after another: a single slot,
\* any number of requests
ArriveSeq ==
    /\ \E h \in HeadersOfOne, b \in Bodies : Post(1, h, b)
    /\ UNCHANGED started

NextSeq ==
    \/ ArriveSeq
    \/ Check(1)
    \/ CheckFails(1)
    \/ Parse(1)
    \/ \E data \in UpstreamData : Resolve(1, data)
    \/ Reject(1)
    \/ Commit(1)
    \/ CommitFails(1)
    \/ Tick

SpecSeq == InitSeq /\ [][NextSeq]_vars

\* the dispatcher: one request at a time on a fresh store, with the larger
\* pools and answers, and clients that disconnect
InitFailover ==
    /\ keys \in {KeysOf(env) : env \in EnvConfigsFailover}
    /\ store = NoStore
    /\ req = [r \in Slots |-> IdleReq]
    /\ served = [k \in DOMAIN NoStore |-> 0]
    /\ expired = {}
    /\ started = 0
    /\ page = ChatInit
    /\ mascot = MascotInit

UpstreamAnswers(r) ==
    \/ \E data \in UpstreamDataFailover : Resolve(r, data)
    \/ Reject(r)

\* the store answers the command it has been sent, or fails
StoreAnswers(r) == Check(r) \/ CheckFails(r) \/ Commit(r) \/ CommitFails(r)

NextFailover ==
    \/ ArriveOne
    \/ Parse(1)
    \/ UpstreamAnswers(1)
    \/ Cancel(1)
    \/ StoreAnswers(1)
    \/ Tick

SpecFailover == InitFailover /\ [][NextFailover]_vars

\* conversations of every length, one request at a time on a fresh store
ArriveLong ==
    /\ started < MaxReqs
    /\ \E h \in HeadersOfOne, b \in BodiesLong : Post(1, h, b)
    /\ started' = started + 1

NextHistory ==
    \/ ArriveLong
    \/ Parse(1)
    \/ UpstreamAnswers(1)
    \/ StoreAnswers(1)
    \/ Tick

SpecHistory == InitSeq /\ [][NextHistory]_vars

\* several clients, with requests in flight at the same time, within the
\* windows that are open (no time passes)
ArriveAny(r) ==
    /\ started < MaxReqs
    /\ \E h \in Headers : Post(r, h, WithMessages(MsgList(1)))
    /\ started' = started + 1

NextClients ==
    \/ \E r \in Slots : ArriveAny(r)
    \/ \E r \in Slots : Check(r)
    \/ \E r \in Slots : Parse(r)
    \/ \E r \in Slots : Resolve(r, DataWith("Hello"))
    \/ \E r \in Slots : Reject(r)
    \/ \E r \in Slots : Commit(r)

SpecClients == Init /\ [][NextClients]_vars

\* the handler runs when it can and the store answers every command; an
\* upstream call may stay without an answer
SpecStoreAnswers ==
    /\ SpecFailover
    /\ WF_vars(Parse(1))
    /\ WF_vars(StoreAnswers(1))

\* every upstream call is answered as well
SpecAllAnswer ==
    /\ SpecStoreAnswers
    /\ WF_vars(UpstreamAnswers(1))

\* TLC refutes this under SpecSeq: requests served one after another reach
\* the second store of InitStores
NearLimitIsNotReached == store \notin InitStores \ {NoStore}

TypeOK ==
    /\ \A r \in Slots : req[r].pc \in {"idle", "check", "parse", "call", "commit", "done"}
    /\ \A k \in DOMAIN store : store[k].count >= 1

\* ---- properties ----------------------------------------------------------
\* the requests the state tells about
Known == {q \in {req[r] : r \in Slots} : q.pc # "idle"}
Done(q) == q.pc = "done"
Count(s, k) == IF k \in DOMAIN s THEN s[k].count ELSE 0

\* the step in which a request arrives in slot r
ArrivedAt(r) ==
    /\ req[r].pc \in {"idle", "done"}
    /\ req'[r].pc # "idle"
    /\ req'[r] # req[r]

\* the step in which redis.get answers request r and checkRateLimit returns
CheckedAt(r) == req[r].pc = "check" /\ req'[r].read

\* the step in which the store runs the command of request r
CommittedBy(r) ==
    req[r].pc = "commit" /\ req'[r].writes = req[r].writes + 1

\* the step in which the store runs the command of request r and the
\* handler gets its answer and returns the reply
RepliedBy(r) == CommittedBy(r) /\ req'[r].resp.role = "assistant"

\* the step in which the last upstream call of request r fails
ExhaustedBy(r) ==
    req[r].pc = "call" /\ req'[r].pc = "done" /\ req'[r].okCalls = 0

\* C1 as stated: in every reachable state the count of every usage record
\* is at most IP_LIMIT
C1_CountWithinLimit == \A k \in DOMAIN store : store[k].count <= IP_LIMIT

\* C1 (amended): the count of a usage record never exceeds IP_LIMIT by more
\* than the number of requests handled concurrently minus one
C1_CountWithinLimitPlusRace ==
    \A k \in DOMAIN store : store[k].count <= IP_LIMIT + NumSlots - 1

C1_Witness == \E k \in DOMAIN store : store[k].count = IP_LIMIT + NumSlots - 1

\* C2 as stated: the commit of a request that got its reply leaves the count
\* one above what it was (a missing record counting as 0)
C2_CountPlusOne ==
    [][\A r \in Slots : CommittedBy(r) =>
          Count(store', KeyOf(req[r])) = Count(store, KeyOf(req[r])) + 1]_vars

\* C2 (amended): a request that is answered with the assistant reply has
\* run exactly one command on the store, however many credentials failed
\* before the one that succeeded; the store running the command of a request
\* adds exactly 1 to the count when the request's check saw a record (a
\* record expired since counting as 0) and sets the count to 1 when it saw
\* none, and changes no other record
C2_OneCommit ==
    /\ [](\A q \in Known :
            (Done(q) /\ q.resp.role = "assistant") =>
                q.writes = 1 /\ q.okCalls = 1)
    /\ [][\A r \in Slots : CommittedBy(r) =>
             /\ Count(store', KeyOf(req[r])) =
                  IF req[r].new THEN 1 ELSE Count(store, KeyOf(req[r])) + 1
             /\ \A k \in DOMAIN store \ {KeyOf(req[r])} :
                  k \in DOMAIN store' /\ store'[k] = store[k]]_vars

C2_Witness ==
    \E q \in Known :
        /\ Done(q) /\ q.resp.role = "assistant"
        /\ q.calls >= 2 /\ q.okCalls = 1 /\ q.writes = 1
        /\ Count(store, KeyOf(q)) >= 1

\* C3: a request all of whose upstream calls failed has run no command on the
\* store, the step that ends it leaves the store as it is, and its response
\* is the 500 error
C3_ExhaustedIsFree ==
    /\ [](\A q \in Known :
            (Done(q) /\ q.calls >= 1 /\ q.okCalls = 0) =>
                /\ q.resp = Json("error", "Some internal error occurred. Please try again later.", 500)
                /\ q.writes = 0)
    /\ [][\A r \in Slots : ExhaustedBy(r) => store' = store]_vars

C3_Witness ==
    \E q \in Known :
        /\ Done(q) /\ q.calls = 2 /\ q.okCalls = 0
        /\ q.resp.status = 500 /\ q.resp.role = "error"
        /\ KeyOf(q) \in DOMAIN store

\* C4: a request whose check reads a count >= IP_LIMIT is answered 429 with
\* role error in the same step, which leaves the store as it is; a request
\* answered 429 has issued no upstream call and run no command on the store
C4_QuotaExceeded ==
    /\ [](\A q \in Known :
            (Done(q) /\ q.resp.status = 429) =>
                /\ q.resp = Json("error", LimitReason, 429)
                /\ q.read /\ q.calls = 0 /\ q.writes = 0)
    /\ [][\A r \in Slots :
            (CheckedAt(r) /\ RedisGet(store, KeyOf(req[r])) >= IP_LIMIT) =>
                /\ Done(req'[r])
                /\ req'[r].resp.status = 429
                /\ store' = store]_vars

C4_Witness ==
    \E q \in Known :
        /\ Done(q) /\ q.resp.status = 429 /\ q.resp.role = "error"
        /\ Count(store, KeyOf(q)) >= IP_LIMIT

\* C5: with requests handled one after another, at most IP_LIMIT requests
\* are served in a window, no request is past its check while IP_LIMIT have
\* been served, and a request checked then is answered 429
C5_SequentialLimit ==
    \A q \in Known :
        LET k == KeyOf(q) IN
        (k \in DOMAIN served /\ served[k] >= IP_LIMIT) =>
            /\ served[k] = IP_LIMIT
            /\ q.pc \in {"check", "done"}
            /\ q.read =>
                 \/ q.resp = Json("error", LimitReason, 429)
                 \/ q.resp.role = "assistant"

C5_Witness ==
    \E q \in Known :
        /\ Done(q) /\ q.resp.status = 429
        /\ KeyOf(q) \in DOMAIN served
        /\ served[KeyOf(q)] = IP_LIMIT
        /\ store[KeyOf(q)].count = IP_LIMIT

\* C6 as stated: the first commit after a client's window has expired leaves
\* a record with count 1 and a time to live of one window
C6_NewWindowAfterExpiry ==
    [][\A r \in Slots :
          (CommittedBy(r) /\ KeyOf(req[r]) \in expired) =>
              store'[KeyOf(req[r])] = [count |-> 1, ttl |-> WINDOW]]_vars

\* a body whose conversation is empty: no messages field, or an empty array
EmptyConversation(b) ==
    /\ b.json
    /\ ~b.isNull
    /\ ~b.hasMessages \/ (b.sliceable /\ ~b.isText /\ b.messages = <<>>)

\* C7 as stated: a request with an empty conversation issues no upstream
\* call, runs no command on the store, and is answered 400 "No messages
\* provided"
C7_EmptyConversationRejected ==
    \A q \in Known :
        (q.read /\ EmptyConversation(q.body)) =>
            /\ q.calls = 0
            /\ q.writes = 0
            /\ Done(q) => q.resp = Json("error", "No messages provided", 400)

\* C8 as stated: the store is not read for a request without messages, and
\* the request is answered 400
C8_ValidatedBeforeCheck ==
    \A q \in Known :
        q.body = NoMessages =>
            /\ ~q.read
            /\ (Done(q) /\ q.resp # Uncaught) =>
                  q.resp = Json("error", "No messages provided", 400)

\* C9 as stated: a response with status 200 has role assistant, and a
\* response with role error has status 400, 429 or 500
C9_StatusRoleTable ==
    \A q \in Known :
        (Done(q) /\ q.resp # Uncaught) =>
            /\ q.resp.status = 200 => q.resp.role = "assistant"
            /\ q.resp.role = "error" => q.resp.status \in {400, 429, 500}

\* C10: a request has at most one upstream call that succeeded, and once a
\* call has succeeded the request has no upstream call in flight any more
\* (a call is in flight exactly while the request is at "call")
C10_StopAtFirstSuccess ==
    \A q \in Known :
        /\ q.okCalls <= 1
        /\ q.okCalls = 1 => q.pc \in {"commit", "done"}
        /\ q.calls <= Len(keys)

C10_Witness ==
    \E q \in Known :
        /\ q.okCalls = 1 /\ q.calls = 1 /\ Len(keys) = 2
        /\ q.pc \in {"commit", "done"}

\* ---- the dispatcher ------------------------------------------------------
\* how many entries of the sequence s hold x
Occurrences(s, x) == Cardinality({j \in DOMAIN s : s[j] = x})

\* the keys the dispatch in progress has attempted, the call in flight included
Attempted(q) == SubSeq(q.shuffledKeys, 1, q.i)

\* the secrets of the pool
Secrets == {keys[j] : j \in DOMAIN keys}

\* the text x is one of the parts of the line
Mentions(line, x) == \E j \in DOMAIN line : line[j] = x

\* C11: the order of a dispatch is a permutation of the pool that does not
\* change during the dispatch; the keys attempted are its first i entries,
\* one upstream call each, so a key is attempted at most as often as the
\* pool lists it (at most once when the pool lists it once) and no key
\* outside the pool is attempted; each failure moves on by exactly one entry
C11_EachKeyOnce ==
    /\ [](\A q \in Known :
            /\ q.calls <= Len(keys)
            /\ q.pc = "call" =>
                /\ q.i \in 1 .. Len(q.shuffledKeys)
                /\ q.calls = q.i
                /\ Len(q.shuffledKeys) = Len(keys)
                /\ \A k \in Secrets :
                     /\ Occurrences(q.shuffledKeys, k) = Occurrences(keys, k)
                     /\ Occurrences(Attempted(q), k) <= Occurrences(keys, k)
                /\ \A j \in 1 .. q.i : q.shuffledKeys[j] \in Secrets)
    /\ [][\A r \in Slots :
            (req[r].pc = "call" /\ req'[r].pc = "call") =>
                /\ req'[r].shuffledKeys = req[r].shuffledKeys
                /\ \/ req'[r].i = req[r].i /\ req'[r].calls = req[r].calls
                   \/ req'[r].i = req[r].i + 1 /\ req'[r].calls = req[r].calls + 1]_vars

C11_Witness ==
    \E q \in Known :
        /\ q.pc = "call" /\ q.i = 3 /\ Len(keys) = 3
        /\ Attempted(q) = <<"K3", "K1", "K2">>

\* C12: a dispatch ends with "All keys failed" only in the step in which the
\* call with the last key of the order fails, after one call for each entry
\* of the pool, none of which succeeded; while an entry is untried, a call
\* that fails yields the next call, and the request leaves the dispatch only
\* through a call that has resolved
C12_FailsAfterAllKeys ==
    /\ [](\A q \in Known :
            (Done(q) /\ q.err = AllKeysFailed) =>
                /\ q.calls = Len(keys)
                /\ q.okCalls = 0
                /\ q.resp.status = 500)
    /\ [][\A r \in Slots :
            /\ ExhaustedBy(r) =>
                  /\ req[r].i = Len(req[r].shuffledKeys)
                  /\ req[r].calls = Len(keys)
                  /\ req'[r].err = AllKeysFailed
            /\ (req[r].pc = "call" /\ req[r].i < Len(req[r].shuffledKeys)) =>
                  /\ req'[r].err # AllKeysFailed
                  /\ req'[r].pc \in {"call", "commit", "done"}
                  /\ req'[r].pc # "call" => req'[r].okCalls = 1]_vars

C12_Witness ==
    \E q \in Known :
        /\ Done(q) /\ q.err = AllKeysFailed
        /\ q.calls = 3 /\ q.okCalls = 0 /\ q.resp.status = 500

\* C13: with an empty pool no request issues an upstream call or runs a
\* command on the store, the store stays as it was, and a request that is
\* allowed and has messages is answered with the 500 error of exhaustion
C13_EmptyPool ==
    keys = <<>> =>
        /\ store = NoStore
        /\ \A q \in Known :
             /\ q.calls = 0 /\ q.okCalls = 0 /\ q.writes = 0
             /\ q.pc \in {"check", "parse", "done"}
             /\ (Done(q) /\ q.read /\ q.body.hasMessages /\ q.body.sliceable) =>
                   /\ q.resp = Json("error", "Some internal error occurred. Please try again later.", 500)
                   /\ q.err = AllKeysFailed

C13_Witness ==
    /\ keys = <<>>
    /\ \E q \in Known :
         /\ Done(q) /\ q.read /\ q.body.hasMessages /\ q.body.sliceable
         /\ q.resp.status = 500 /\ q.resp.role = "error" /\ q.calls = 0

\* C14: the call that resolves with a content ends the dispatch, whatever
\* failed before; the reply is the content of the message of the first
\* choice of that answer, and the response after the commit is
\* {role: "assistant", content: reply} with status 200
C14_FirstSuccessContent ==
    [][\A r \in Slots :
          /\ \A data \in UpstreamDataFailover :
               (Resolve(r, data) /\ ReplyOf(data) \notin {"", Thrown}) =>
                   /\ req'[r].pc = "commit"
                   /\ req'[r].okCalls = 1
                   /\ req'[r].calls = req[r].calls
                   /\ req'[r].reply = data.choices[1].message.content
          /\ RepliedBy(r) =>
               req'[r].resp = Json("assistant", req[r].reply, 200)]_vars

C14_Witness ==
    \E q \in Known :
        /\ Done(q) /\ keys = <<"K1", "K2">>
        /\ q.calls = 2 /\ q.okCalls = 1
        /\ q.resp = Json("assistant", "Hello", 200)

\* C15 as stated: no line written to the console for a failed call, no
\* error of a failed dispatch and no response holds a secret of the pool
C15_NoSecretEmitted ==
    \A q \in Known : \A k \in Secrets :
        /\ \A n \in DOMAIN q.warned : ~Mentions(q.warned[n], k)
        /\ q.err.message # k
        /\ ~Mentions(q.err.causes, k)
        /\ q.resp.content # k

\* C16 as stated: the error of a dispatch all of whose keys failed carries
\* one cause for each key that was attempted
C16_ErrorCarriesCauses ==
    \A q \in Known :
        (Done(q) /\ q.err = AllKeysFailed) => Len(q.err.causes) = q.calls

\* C17 as stated: a 2xx answer without an assistant message counts as a
\* failure of its key: with a key left the dispatch calls the next one, with
\* none left it ends with "All keys failed"
C17_NoMessageIsAFailure ==
    [][\A r \in Slots :
          Resolve(r, DataNoChoices) =>
              IF req[r].i < Len(req[r].shuffledKeys)
              THEN req'[r].pc = "call" /\ req'[r].i = req[r].i + 1
              ELSE req'[r].err = AllKeysFailed]_vars

\* C18 as stated: an upstream call does not stay in flight forever, whether
\* or not the upstream answers it
C18_CallTimesOut ==
    \A r \in Slots : \A n \in 1 .. 6 :
        (req[r].pc = "call" /\ req[r].calls = n)
            ~> ~(req[r].pc = "call" /\ req[r].calls = n)

\* C19 as stated: once the client has disconnected during an upstream call
\* the request issues no further upstream call, takes no reply and runs no
\* command on the store
C19_CancelStopsRequest ==
    /\ [](\A q \in Known : q.cancelled => q.writes = 0 /\ q.pc # "commit")
    /\ [][\A r \in Slots :
            (req[r].cancelled /\ req[r].pc = "call") =>
                /\ req'[r].calls = req[r].calls
                /\ store' = store]_vars

\* C20 as stated: when every upstream call and every store command is
\* answered, a request that has been received ends, and it ends with one
\* response of the handler
C20_EndsWithOneResponse ==
    /\ [](\A q \in Known : Done(q) => q.resp.role \in {"assistant", "error"})
    /\ \A r \in Slots :
         (req[r].pc \in {"check", "parse", "call", "commit"}) ~> (req[r].pc = "done")

\* ---- the handler and the store -------------------------------------------
\* C21 as stated: a request for which the read of the store, the parsing of
\* the body, the dispatch or the write to the store has failed is answered
\* with a response of role "error"
C21_FailuresBecomeErrorResponses ==
    \A q \in Known :
        (Done(q) /\ (~q.read \/ ~q.body.json \/ q.err # NoErr)) =>
            /\ q.resp.role = "error"
            /\ q.resp.status \in {400, 429, 500}

\* C22: a request runs at most one command on the store, and only once one
\* of its own upstream calls has succeeded: a step of a request that is
\* still parsing or calling leaves the store as it is, and the step that
\* produces the assistant response is the one that completes the command of
\* a request waiting in its commit, so that every assistant response has
\* status 200 and exactly one command behind it
C22_WriteAfterSuccessBeforeResponse ==
    /\ [](\A q \in Known :
            /\ q.writes \in {0, 1}
            /\ q.writes = 1 => q.okCalls = 1 /\ Done(q)
            /\ q.okCalls = 0 => q.writes = 0
            /\ (Done(q) /\ q.resp.role = "assistant") =>
                  q.resp.status = 200 /\ q.writes = 1)
    /\ [][\A r \in Slots :
            /\ (req[r].pc \in {"check", "parse", "call"} /\ req'[r] # req[r]) =>
                  /\ store' = store
                  /\ req'[r].writes = 0
                  /\ req'[r].resp.role # "assistant"
            /\ (req[r].pc = "commit" /\ req'[r].resp.role = "assistant") =>
                  /\ req[r].okCalls = 1 /\ req[r].writes = 0
                  /\ req'[r].writes = 1
                  /\ store' = IF req[r].new
                              THEN RedisSetEx(store, KeyOf(req[r]), 1, WINDOW)
                              ELSE RedisIncr(store, KeyOf(req[r]))]_vars

C22_Witness ==
    /\ \E q \in Known :
         Done(q) /\ q.resp.role = "assistant" /\ q.writes = 1 /\ q.calls = 2
    /\ \E q \in Known :
         q.pc = "call" /\ q.calls = 2 /\ q.writes = 0
    /\ \E k \in DOMAIN store : store[k].count >= 1

\* C23: the commit of a request whose check saw no record leaves the record
\* with count 1 and a time to live of one window (48 hours); the commit of a
\* request whose check saw a record adds 1 to the count of the record and
\* leaves its time to live as it is (a record that has expired since the
\* check is counted from 0 and gets no time to live); no other record changes
C23_SetOrIncrement ==
    [][\A r \in Slots :
          CommittedBy(r) =>
              LET k == KeyOf(req[r]) IN
              /\ k \in DOMAIN store'
              /\ IF req[r].new
                 THEN store'[k] = [count |-> 1, ttl |-> 3600 * 24 * 2]
                 ELSE IF k \in DOMAIN store
                 THEN store'[k] = [count |-> store[k].count + 1,
                                   ttl |-> store[k].ttl]
                 ELSE store'[k] = [count |-> 1, ttl |-> NoExpiry]
              /\ \A o \in DOMAIN store' \ {k} :
                   o \in DOMAIN store /\ store'[o] = store[o]]_vars

C23_Witness ==
    /\ \E k \in DOMAIN store :
         /\ store[k].count = IP_LIMIT
         /\ store[k].ttl # NoExpiry /\ store[k].ttl < WINDOW
    /\ \E q \in Known :
         Done(q) /\ q.resp.role = "assistant" /\ ~q.new /\ q.writes = 1

\* C24: the commit of a request whose check saw no record sets the count to
\* 1 even when another request of the client has created the record since:
\* the reply is served and the count does not go up, so that it is below
\* the number of replies when a reply has been served in the window before
C24_CommitIsNotAtomic ==
    [][\A r \in Slots :
          LET k == KeyOf(req[r]) IN
          (RepliedBy(r) /\ req[r].new /\ k \in DOMAIN store) =>
              /\ store'[k].count = 1
              /\ served'[k] = served[k] + 1
              /\ store'[k].count <= store[k].count
              /\ served[k] >= 1 => served'[k] > store'[k].count]_vars

C24_Witness ==
    /\ \E k \in DOMAIN store :
         /\ store[k] = [count |-> 1, ttl |-> WINDOW]
         /\ served[k] = 2
    /\ \E q \in Known :
         Done(q) /\ q.resp.role = "assistant" /\ q.new /\ q.writes = 1

\* C25: the conversation of a request that is calling upstream is the system
\* message followed by the last min(5, |M|) messages of its message list M,
\* in the order of M: at most 6 messages (when the messages field is a
\* string, by at most 5 strings made of its last code units)
C25_LastFiveAfterSystem ==
    \A q \in Known :
        q.pc = "call" =>
            LET M == q.body.messages
                h == q.chatHistory
                n == Len(q.chatHistory) - 1
            IN  /\ Len(h) <= 6
                /\ h[1].role = "system"
                /\ h[1] = systemPrompt
                /\ ~q.body.isText =>
                      /\ n = IF Len(M) < 5 THEN Len(M) ELSE 5
                      /\ \A j \in 1 .. n : h[j + 1] = M[Len(M) - n + j]

C25_Witness ==
    \E q \in Known :
        /\ q.pc = "call" /\ ~q.body.isText /\ Len(q.body.messages) = 7
        /\ Len(q.chatHistory) = 6
        /\ q.chatHistory[2] = UserMsg(3) /\ q.chatHistory[6] = UserMsg(7)

\* C26: a request has one upstream call in flight while it is calling and
\* none otherwise: every call issued before the one in flight has failed
\* (each failure wrote its line), none has succeeded, and a further call is
\* issued only in the step in which the call in flight fails
C26_OneCallAtATime ==
    /\ [](\A q \in Known :
            q.pc = "call" =>
                /\ q.okCalls = 0
                /\ Len(q.warned) = q.calls - 1)
    /\ [][\A r \in Slots :
            req'[r].calls > req[r].calls =>
                /\ req'[r].calls = req[r].calls + 1
                /\ \/ req[r].pc = "parse" /\ req[r].calls = 0
                   \/ /\ req[r].pc = "call"
                      /\ Len(req'[r].warned) = Len(req[r].warned) + 1]_vars

C26_Witness ==
    \E q \in Known :
        q.pc = "call" /\ q.calls = 3 /\ Len(q.warned) = 2 /\ q.okCalls = 0

\* the orderings of the sequence s
Perms(s) ==
    {[j \in 1 .. Len(s) |-> s[f[j]]] :
        f \in {g \in [1 .. Len(s) -> 1 .. Len(s)] :
                 \A a, b \in 1 .. Len(s) : a # b => g[a] # g[b]}}

\* C27: the order of a dispatch in progress is an ordering of the pool, and
\* for a request about to dispatch, whatever was drawn before, every
\* ordering of the pool is the outcome of some draw
C27_FreshPermutation ==
    \A q \in Known :
        /\ q.pc = "call" => q.shuffledKeys \in Perms(keys)
        /\ (q.pc = "parse" /\ q.body.json /\ ~q.body.isNull
              /\ q.body.hasMessages /\ q.body.sliceable) =>
              \A p \in Perms(keys) :
                  \E rnd \in Draws(Len(keys)) :
                      AfterParse(q, keys, rnd).shuffledKeys = p

C27_Witness ==
    /\ started = 3
    /\ keys = <<"K1", "K2", "K3">>
    /\ \E q \in Known : q.pc = "call" /\ q.shuffledKeys = <<"K3", "K2", "K1">>

\* C28: no step changes the pool
C28_PoolReadOnly == [][keys' = keys]_vars

C28_Witness ==
    /\ keys = <<"K1", "K2", "K3">>
    /\ started = 3
    /\ \E q \in Known :
         Done(q) /\ q.calls = 3 /\ q.okCalls = 1 /\ q.resp.role = "assistant"

\* an environment entry that is present and not empty
Present(x) == x # UNSET /\ x # ""

\* C29: the pool is the list of the present, non-empty entries of the
\* environment in the order of the environment, and the key of an upstream
\* call is such an entry
C29_PoolIsFilteredConfig ==
    /\ \E env \in EnvConfigsFailover :
         /\ Len(keys) = Cardinality({j \in DOMAIN env : Present(env[j])})
         /\ \E f \in [DOMAIN keys -> DOMAIN env] :
              /\ \A a, b \in DOMAIN keys : a < b => f[a] < f[b]
              /\ \A j \in DOMAIN keys : keys[j] = env[f[j]] /\ Present(env[f[j]])
    /\ \A j \in DOMAIN keys : Present(keys[j])
    /\ \A q \in Known : q.pc = "call" => Present(q.shuffledKeys[q.i])

C29_Witness ==
    /\ keys = <<"K1", "K2">>
    /\ \E q \in Known : q.pc = "call" /\ q.i = 2 /\ q.shuffledKeys[2] = "K1"

\* C30 as stated: in a window no client is given more than IP_LIMIT
\* assistant replies
C30_RepliesWithinLimit ==
    \A k \in DOMAIN served : served[k] <= IP_LIMIT

\* ---- the usage records ---------------------------------------------------
\* C31 as stated: every record of the store has a time to live
C31_EveryRecordExpires ==
    \A k \in DOMAIN store : store[k].ttl # NoExpiry

\* C32 as stated: no step lowers the count of a record that exists
C32_CountNeverDecreases ==
    [][\A k \in DOMAIN store \cap DOMAIN store' :
          store'[k].count >= store[k].count]_vars

\* C32 (amended): the count of a record that exists is lowered only by the
\* commit of a request whose check saw no record, which sets it to 1; the
\* commit of a request whose check saw a record raises it by 1, and nothing
\* else changes it
C32_CountLoweredOnlyByNewWindow ==
    [][\A k \in DOMAIN store \cap DOMAIN store' :
          /\ store'[k].count < store[k].count =>
                /\ store'[k].count = 1
                /\ \E r \in Slots :
                     CommittedBy(r) /\ req[r].new /\ KeyOf(req[r]) = k
          /\ (\A r \in Slots : ~(CommittedBy(r) /\ req[r].new)) =>
                store'[k].count \in {store[k].count, store[k].count + 1}]_vars

C32_Witness ==
    /\ \E k \in DOMAIN store :
         store[k] = [count |-> 1, ttl |-> WINDOW] /\ served[k] = 3
    /\ \E q \in Known :
         Done(q) /\ q.new /\ q.writes = 1 /\ q.resp.role = "assistant"

\* C33 as stated: no step gives a record that exists and has a time to live
\* a longer one
C33_ExpiryNeverMovedLater ==
    [][\A k \in DOMAIN store \cap DOMAIN store' :
          store[k].ttl # NoExpiry =>
              /\ store'[k].ttl # NoExpiry
              /\ store'[k].ttl <= store[k].ttl]_vars

\* C33 (amended): the time to live of a record that exists is changed only
\* by the passing of time, which shortens it, and by the commit of a request
\* whose check saw no record, which sets it to one full window; the commit
\* of a request whose check saw a record leaves it as it is
C33_ExpiryMovedOnlyByNewWindow ==
    [][\A k \in DOMAIN store \cap DOMAIN store' :
          /\ store'[k].ttl # store[k].ttl =>
                \/ /\ store'[k].ttl = WINDOW
                   /\ \E r \in Slots :
                        CommittedBy(r) /\ req[r].new /\ KeyOf(req[r]) = k
                \/ /\ store' = RedisAge(store, TickLen)
                   /\ store'[k].ttl = store[k].ttl - TickLen
          /\ (\E r \in Slots : CommittedBy(r) /\ ~req[r].new) =>
                store'[k].ttl = store[k].ttl]_vars

C33_Witness ==
    /\ expired = {}
    /\ \E k \in DOMAIN store :
         store[k] = [count |-> 1, ttl |-> WINDOW] /\ served[k] = 2
    /\ \E q \in Known :
         /\ Done(q) /\ q.new /\ q.writes = 1
         /\ \E o \in Known : o.pc = "call" /\ ~o.new

\* the record of the client with identifier ip
RecordOf(s, ip) ==
    IF <<"AIDemoUsage:">> \o ip \in DOMAIN s
    THEN s[<<"AIDemoUsage:">> \o ip]
    ELSE [count |-> 0, ttl |-> NoExpiry]

\* the identifiers of the clients
ClientIds == {getIP(h) : h \in Headers}

\* C34: the commit of a request changes no record but that of its client,
\* the records of two clients are two records, and whether a request is let
\* through, and whether it starts a window, depends on the count of the
\* record of its client alone
C34_RecordsPerClient ==
    /\ [](\A a, b \in ClientIds : a # b => UsageKey(a) # UsageKey(b))
    /\ [][\A r \in Slots :
            /\ CommittedBy(r) =>
                  /\ \A b \in ClientIds \ {getIP(req[r].hdr)} :
                       RecordOf(store', b) = RecordOf(store, b)
                  /\ RecordOf(store', getIP(req[r].hdr)).count >= 1
            /\ ArrivedAt(r) => store' = store
            /\ CheckedAt(r) =>
                  LET own == RecordOf(store, getIP(req[r].hdr)) IN
                  /\ store' = store
                  /\ (req'[r].resp.status = 429) = (own.count >= IP_LIMIT)
                  /\ (req'[r].pc = "parse") = (own.count < IP_LIMIT)
                  /\ req'[r].new = (own.count = 0)]_vars

C34_Witness ==
    /\ RecordOf(store, <<49>>).count = IP_LIMIT
    /\ RecordOf(store, <<233, 50>>).count = 1
    /\ RecordOf(store, <<>>).count = 0
    /\ \E q \in Known :
         Done(q) /\ getIP(q.hdr) = <<49>> /\ q.resp.status = 429


\* ---- the chat page: events ------------------------------------------------
gateway == <<keys, store, req, served, expired, started>>

\* onChange of the textarea
TypeInput(text) ==
    /\ ~inputDisabled(page)
    /\ page' = [page EXCEPT !.input = text]
    /\ UNCHANGED <<gateway, mascot>>

FillExample(prompt) ==
    /\ page' = [page EXCEPT !.input = prompt]
    /\ UNCHANGED <<gateway, mascot>>

\* a click on the send button
ClickSend ==
    /\ ~sendDisabled(page)
    /\ page.sends < MaxSends
    /\ page' = handleSend(page)
    /\ UNCHANGED <<gateway, mascot>>

\* Enter in the textarea
PressEnter ==
    /\ ~inputDisabled(page)
    /\ page.sends < MaxSends
    /\ page' = handleSend(page)
    /\ UNCHANGED <<gateway, mascot>>

ToggleDemo ==
    /\ page' = [page EXCEPT !.demoMode = ~@]
    /\ UNCHANGED <<gateway, mascot>>

GreetingTimer ==
    /\ page.greetingTimer
    /\ page' = onGreetingTimer(page)
    /\ UNCHANGED <<gateway, mascot>>

DemoTimer ==
    /\ page.demoTimers > 0
    /\ \E randomResponse \in demoResponses :
          page' = onDemoTimer(page, randomResponse)
    /\ UNCHANGED <<gateway, mascot>>

FetchResolves ==
    /\ page.fetches > 0
    /\ \E data \in PageData : page' = onFetchResolved(page, data)
    /\ UNCHANGED <<gateway, mascot>>

\* fetch rejects, or the body is not JSON and response.json() rejects
FetchRejects ==
    /\ page.fetches > 0
    /\ page' = onFetchRejected(page)
    /\ UNCHANGED <<gateway, mascot>>

NextPage ==
    \/ \E text \in InputTexts : TypeInput(text)
    \/ \E prompt \in examplePrompts : FillExample(prompt)
    \/ ClickSend
    \/ PressEnter
    \/ ToggleDemo
    \/ GreetingTimer
    \/ DemoTimer
    \/ FetchResolves
    \/ FetchRejects

SpecPage == InitSeq /\ [][NextPage]_vars

\* timers fire and a fetch settles
SpecPageFair ==
    /\ SpecPage
    /\ WF_vars(GreetingTimer)
    /\ WF_vars(DemoTimer)
    /\ WF_vars(FetchResolves \/ FetchRejects)

\* ---- the mascot: events ---------------------------------------------------
Mount ==
    /\ ~mascot.isMounted
    /\ \E matches \in BOOLEAN :
          mascot' = [mountEffects(mascot, matches) EXCEPT !.event = "mount"]
    /\ UNCHANGED <<gateway, page>>

\* the effects of the commit that shows the component run
InitEffect ==
    /\ effectsPending(mascot)
    /\ mascot' = [initEffect(mascot) EXCEPT !.event = "init"]
    /\ UNCHANGED <<gateway, page>>

\* the timeout that is due first fires; the effects of a commit are run in
\* a task queued at the commit, ahead of a timeout set after it
FireTimer ==
    /\ ~effectsPending(mascot)
    /\ mascot.timeouts # <<>>
    /\ mascot' = [runTimer([mascot EXCEPT !.timeouts = Tail(@)],
                           Head(mascot.timeouts))
                    EXCEPT !.event = "timer"]
    /\ UNCHANGED <<gateway, page>>

\* the Replay button
Replay ==
    /\ mascot.isMounted
    /\ mascot.replays < MaxReplays
    /\ mascot' = [replayAnimation(mascot) EXCEPT !.replays = @ + 1,
                                                 !.event = "replay"]
    /\ UNCHANGED <<gateway, page>>

\* the user switches the reduced-motion preference
PreferenceChange ==
    /\ mascot.isMounted
    /\ mascot' = [onPreferenceChange(mascot, ~mascot.prefersReducedMotion)
                    EXCEPT !.event = "preference"]
    /\ UNCHANGED <<gateway, page>>

NextMascot ==
    \/ Mount
    \/ InitEffect
    \/ FireTimer
    \/ Replay
    \/ PreferenceChange

SpecMascot == InitSeq /\ [][NextMascot]_vars

\* effects that are pending run and timeouts that are pending fire
SpecMascotFair ==
    SpecMascot /\ WF_vars(Mount) /\ WF_vars(InitEffect) /\ WF_vars(FireTimer)


\* ---- the chat page and the mascot ----------------------------------------
IsPrefix(s, t) == Len(s) <= Len(t) /\ SubSeq(t, 1, Len(s)) = s

Outstanding(p) == p.demoTimers + p.fetches

\* C35 as stated: every step of the page leaves the messages it shows, and
\* those of messagesRef, in place, and adds new ones at the end only
C35_MessagesOnlyGrow ==
    [][/\ IsPrefix(page.messages, page'.messages)
       /\ IsPrefix(page.messagesRef, page'.messagesRef)]_vars

\* C36: isTyping is true exactly while one request of the page (a fetch or a
\* canned-response timer) is outstanding, and there is never more than one;
\* while it is true the textarea and the send button are disabled; a send
\* that goes through sets it, and once it is true it becomes false again
C36_TypingEnds ==
    /\ [](/\ Outstanding(page) <= 1
          /\ page.isTyping <=> Outstanding(page) = 1
          /\ page.isTyping => inputDisabled(page) /\ sendDisabled(page))
    /\ [][page'.sends > page.sends =>
            /\ ~page.isTyping
            /\ page'.isTyping
            /\ page'.input = <<>>]_vars
    /\ (page.isTyping ~> ~page.isTyping)

\* C36 (witness): a send in API mode whose fetch has failed: the user's
\* message is the last one and the page takes input again
C36_Witness ==
    /\ page.sends >= 1
    /\ ~page.isTyping
    /\ Outstanding(page) = 0
    /\ page.messages # <<>>
    /\ page.messages[Len(page.messages)].role = "user"

\* C37 as stated: between two replays startSequence takes effect at most
\* once and no step moves animationState to an earlier state of the order
\* splash, transitioning, docked, idle
C37_SequenceOnlyAdvances ==
    /\ [](mascot.starts <= 1)
    /\ [][mascot'.event # "replay" =>
            Rank(mascot'.animationState) >= Rank(mascot.animationState)]_vars

\* C37 (amended): between two replays startSequence takes effect at most
\* once; a step that is not a replay moves animationState forward in the
\* order splash, transitioning, docked, idle or leaves it, except that the
\* reduced-motion preference turning on while the sequence is running sets
\* it to docked, from idle too; a replay leaves no timeout pending but the
\* one that starts the new sequence
C37_AdvancesOrDocks ==
    /\ [](/\ mascot.starts <= 1
          /\ mascot.event = "replay" =>
                mascot.timeouts = <<Timer("startSequence",
                                          mascot.timeouts[1].reduced)>>)
    /\ [][mascot'.event # "replay" =>
            \/ Rank(mascot'.animationState) >= Rank(mascot.animationState)
            \/ /\ mascot'.event = "preference"
               /\ mascot'.prefersReducedMotion
               /\ mascot.animationStarted
               /\ mascot'.animationState = "docked"]_vars

\* C37 (witness): a sequence started by a replay that cut the one before
\* short has run through to idle
C37_Witness ==
    /\ mascot.replays >= 1
    /\ mascot.event = "timer"
    /\ mascot.animationStarted
    /\ mascot.animationState = "idle"

\* C38 as stated: once mounted the mascot comes to rest docked (or idle, the
\* state that follows it) with its controls shown
C38_ReachesDocked ==
    mascot.isMounted ~>
        (mascot.animationState \in {"docked", "idle"} /\ mascot.showControls)

====
